---- MODULE Spec2Model ----
(***************************************************************************)
(* A model of gsconfig's Catalog (src/src/geoserver/catalog.py) and Layer  *)
(* (src/src/geoserver/layer.py): the 5-second response cache, the writing  *)
(* operations that clear it, the lookups built on get_xml, and the layer's *)
(* dirty map.  The client is synchronous and single-threaded: every call   *)
(* is one atomic action; the clock advances between calls.                 *)
(***************************************************************************)
EXTENDS Integers, Sequences, FiniteSets, TLC

VARIABLES now, cache, srv, version, layer, last

vars == <<now, cache, srv, version, layer, last>>

(* ------------------------------ bounds -------------------------------- *)

\* The clock (whole seconds) runs from 0 to MaxTime.
MaxTime == 6

(* ------------------------- program constants -------------------------- *)

\* timedelta(seconds=5) in is_valid
TTL == 5

WsNames == {"w1", "w2"}
StoreNames == {"s"}
StyleNames == {"st"}
LayerNames == {"ly"}
GroupNames == {"g"}

\* Python's None, as a record so that it compares with every other value.
None == [kind |-> "None"]

(* ------------------------------- URLs --------------------------------- *)
\* A URL is the sequence of its path segments below service_url, the
\* extension or the query string being its last element.

workspaces_url == <<"workspaces.xml">>
datastore_url(w) == <<"workspaces", w, "datastores.xml">>
coveragestore_url(w) == <<"workspaces", w, "coveragestores.xml">>
style_url(n) == <<"styles", n, ".xml">>
style_sld_url(n) == <<"styles", n, ".sld">>
style_post_url(n) == <<"styles", "?name=", n>>
layer_href(n) == <<"layers", n, ".xml">>
group_url(n) == <<"layergroups", n, ".xml">>
workspace_style_url(w, n) == <<"workspaces", w, "styles", n, ".xml">>
reload_url == <<"reload">>
namespaces_url == <<"namespaces">>
about_url == <<"about", "version.xml">>
featurestore_put_url(w, n) == <<"workspaces", w, "datastores", n, "file.shp">>
coveragestore_put_url(w, n, ext) == <<"workspaces", w, "coveragestores", n, "file.", ext>>

StoreURLs == {workspaces_url} \cup {datastore_url(w) : w \in WsNames}
                 \cup {coveragestore_url(w) : w \in WsNames}

(* ------------------------------ values -------------------------------- *)

Str(s) == [kind |-> "str", s |-> s]
Workspace(n) == [kind |-> "Workspace", name |-> n]
Store(type, w, n) == [kind |-> "Store", type |-> type, workspace |-> w, name |-> n]
Style(n) == [kind |-> "Style", name |-> n]
LayerGroup(n) == [kind |-> "LayerGroup", name |-> n]
LayerObj(n) == [kind |-> "Layer", name |-> n]
Workspace_Style(workspace, n) == [kind |-> "Workspace_Style", workspace |-> workspace, name |-> n]
_attribution(title, width, height) ==
    [kind |-> "_attribution", title |-> title, width |-> width, height |-> height]
List(items) == [kind |-> "list", items |-> items]
\* The data handed to an upload: a dict of files, a dict holding a "tfw", a
\* path, or an open file.
Data(form) == [kind |-> "data", form |-> form]

Range(f) == {f[i] : i \in DOMAIN f}

\* An HTTP request as the server sees it.
Req(m, u) == [method |-> m, url |-> u, body |-> None]
ReqB(m, u, b) == [method |-> m, url |-> u, body |-> b]

(* ------------------------------ server -------------------------------- *)
\* The remote server: the workspaces it lists (in listing order), each
\* workspace's data stores and coverage stores, and the styles, layers and
\* layer groups it holds.  A document is what a GET of its URL answers.

\* at: when the server sent it (set as it is served).
Xml(u, names) == [kind |-> "xml", href |-> u, names |-> names, at |-> 0]

\* about/version.xml: the <resource> elements, each with its name attribute
\* and its Version child (None: no such child; an element holds a text, or
\* None when it is empty).
Element(text) == [kind |-> "element", text |-> text]
Resource(name, Version) == [name |-> name, Version |-> Version]
About(resources) == [kind |-> "about", resources |-> resources, at |-> 0]

\* A layer's document: its <defaultStyle>, its <styles>, its <attribution>.
\* A style is referred to by a <name> and a link with an href.
StyleRef(name, href) == [name |-> name, href |-> href]
LayerDoc(defaultStyle, styles, attribution) ==
    [defaultStyle |-> defaultStyle, styles |-> styles, attribution |-> attribution]
LayerXml(u, name, doc) ==
    [kind |-> "xml", href |-> u, names |-> <<name>>, at |-> 0, layer |-> doc]

Doc(s, u) ==
    IF u = about_url THEN s.about
    ELSE IF u = workspaces_url THEN Xml(u, s.ws)
    ELSE IF \E w \in Range(s.ws) : u = datastore_url(w)
        THEN Xml(u, s.ds[CHOOSE w \in Range(s.ws) : u = datastore_url(w)])
    ELSE IF \E w \in Range(s.ws) : u = coveragestore_url(w)
        THEN Xml(u, s.cs[CHOOSE w \in Range(s.ws) : u = coveragestore_url(w)])
    ELSE IF \E n \in s.styles : u = style_url(n) THEN Xml(u, <<u[2]>>)
    ELSE IF \E n \in s.wstyles : u = workspace_style_url(n[1], n[2]) THEN Xml(u, <<u[4]>>)
    ELSE IF \E n \in s.layers : u = layer_href(n) THEN LayerXml(u, u[2], s.ldoc)
    ELSE IF \E n \in s.groups : u = group_url(n) THEN Xml(u, <<u[2]>>)
    ELSE None

\* The answer to self.http.request(rest_url) at time t: env.srv is the server,
\* env.down the URLs whose GET fails in this call, env.fs the status they fail
\* with.
http_get(env, u, t) ==
    IF u \in env.down THEN [status |-> env.fs, body |-> None]
    ELSE IF Doc(env.srv, u) = None THEN [status |-> 404, body |-> None]
    ELSE [status |-> 200, body |-> [Doc(env.srv, u) EXCEPT !.at = t]]

(* ------------------------------- cache -------------------------------- *)
\* self._cache: a dict from URL to (datetime.now(), content).

EmptyCache == [u \in {} |-> None]

CachePut(c, u, e) == [x \in (DOMAIN c) \cup {u} |-> IF x = u THEN e ELSE c[x]]

\* What a call gives back: the exception raised ("none": it returned), the
\* value returned, the cache it leaves and the requests it sent, in order.
Ret(v, c, sent) == [exc |-> "none", val |-> v, c |-> c, sent |-> sent]
Raise(e, c, sent) == [exc |-> e, val |-> None, c |-> c, sent |-> sent]

\* r, after the requests of sent
After(sent, r) == [r EXCEPT !.sent = sent \o @]

\* is_valid with <= for <: an entry 5 seconds old still counts as fresh.
is_valid_inclusive(c, u, t) == u \in DOMAIN c /\ t - c[u].t <= TTL

is_valid(c, u, t) == u \in DOMAIN c /\ t - c[u].t < TTL

\* get_xml_response storing the content whatever the status.
get_xml_response_storing_any(c, u, t, r) ==
    IF r.status = 200
    THEN Ret(r.body, CachePut(c, u, [t |-> t, body |-> r.body]), <<Req("GET", u)>>)
    ELSE Raise("FailedRequestError", CachePut(c, u, [t |-> t, body |-> r.body]),
               <<Req("GET", u)>>)

\* get_xml once the cache was of no use: r is the response to the GET.
get_xml_response(c, u, t, r) ==
    IF r.status = 200
    THEN Ret(r.body, CachePut(c, u, [t |-> t, body |-> r.body]), <<Req("GET", u)>>)
    ELSE Raise("FailedRequestError", c, <<Req("GET", u)>>)

get_xml(c, u, t, env) ==
    IF is_valid(c, u, t) THEN Ret(c[u].body, c, <<>>)
    ELSE get_xml_response(c, u, t, http_get(env, u, t))

(* ------------------------------ lookups ------------------------------- *)

\* workspace_from_index over the <workspace> nodes of the listing r
workspaces_from(r) ==
    IF r.exc # "none" THEN r
    ELSE Ret(List([i \in 1..Len(r.val.names) |-> Workspace(r.val.names[i])]), r.c, r.sent)

get_workspaces(c, t, env) == workspaces_from(get_xml(c, workspaces_url, t, env))

IsNamed(w, name) == w.name = name

\* get_workspace once get_workspaces gave r
candidates(r, name) == SelectSeq(r.val.items, LAMBDA w : IsNamed(w, name))

pick_workspace(r, name) ==
    IF r.exc # "none" THEN r
    ELSE IF Len(candidates(r, name)) = 0 THEN Ret(None, r.c, r.sent)
    ELSE IF Len(candidates(r, name)) > 1 THEN Raise("AmbiguousRequestError", r.c, r.sent)
    ELSE Ret(candidates(r, name)[1], r.c, r.sent)

get_workspace(c, name, t, env) == pick_workspace(get_workspaces(c, t, env), name)

\* get_stores(workspace) for a Workspace object: the data stores followed by
\* the coverage stores.
stores_from(ds_list, cs_list, w) ==
    IF cs_list.exc # "none" THEN After(ds_list.sent, cs_list)
    ELSE Ret(List([i \in 1..Len(ds_list.val.names) |->
                      Store("dataStore", w.name, ds_list.val.names[i])]
                  \o [i \in 1..Len(cs_list.val.names) |->
                      Store("coverageStore", w.name, cs_list.val.names[i])]),
             cs_list.c, ds_list.sent \o cs_list.sent)

stores_after(ds_list, w, t, env) ==
    IF ds_list.exc # "none" THEN ds_list
    ELSE stores_from(ds_list, get_xml(ds_list.c, coveragestore_url(w.name), t, env), w)

get_stores(c, w, t, env) ==
    stores_after(get_xml(c, datastore_url(w.name), t, env), w, t, env)

\* dict(zip([s.name for s in raw_stores], raw_stores))[name]: the last store
\* of that name in the list.
named(stores, name) == SelectSeq(stores, LAMBDA s : IsNamed(s, name))

\* found_stores[ws.name + ':' + name] = new_stores[name], if name is there
add_found(found, stores, ws, name) ==
    IF Len(named(stores, name)) = 0 THEN found
    ELSE [x \in (DOMAIN found) \cup {<<ws.name, name>>} |->
             IF x = <<ws.name, name>> THEN named(stores, name)[Len(named(stores, name))]
             ELSE found[x]]

\* The loop over workspaces[i..]; an exception of get_stores ends it.
RECURSIVE find_stores(_, _, _, _, _, _, _, _)
find_next(raw_stores, name, workspaces, i, found, sent, t, env) ==
    IF raw_stores.exc # "none"
    THEN [exc |-> raw_stores.exc, found |-> found, c |-> raw_stores.c,
          sent |-> sent \o raw_stores.sent]
    ELSE find_stores(raw_stores.c, name, workspaces, i + 1,
                     add_found(found, raw_stores.val.items, workspaces[i], name),
                     sent \o raw_stores.sent, t, env)

find_stores(c, name, workspaces, i, found, sent, t, env) ==
    IF i > Len(workspaces) THEN [exc |-> "none", found |-> found, c |-> c, sent |-> sent]
    ELSE find_next(get_stores(c, workspaces[i], t, env), name, workspaces, i, found, sent,
                   t, env)

\* The exception line 250 raises: its message is built as str + list, which
\* raises TypeError before AmbiguousRequestError is constructed.
MultipleStoresFound == "TypeError"

\* The three cases on found_stores
found_result(f) ==
    IF f.exc # "none" THEN Raise(f.exc, f.c, f.sent)
    ELSE IF Cardinality(DOMAIN f.found) = 0 THEN Raise("FailedRequestError", f.c, f.sent)
    ELSE IF Cardinality(DOMAIN f.found) > 1 THEN Raise(MultipleStoresFound, f.c, f.sent)
    ELSE Ret(f.found[CHOOSE k \in DOMAIN f.found : TRUE], f.c, f.sent)

\* workspace made a Workspace object (or None) if it is a name
resolve_workspace(c, workspace, t, env) ==
    IF workspace.kind = "str" THEN get_workspace(c, workspace.s, t, env)
    ELSE Ret(workspace, c, <<>>)

\* potential_workspaces looking into no workspace when none was found.
potential_workspaces_none(w, t, env) ==
    IF w.exc # "none" THEN w
    ELSE IF w.val = None THEN Ret(List(<<>>), w.c, w.sent)
    ELSE Ret(List(<<w.val>>), w.c, w.sent)

\* The workspaces to look into: the one given, or all of them
potential_workspaces(w, t, env) ==
    IF w.exc # "none" THEN w
    ELSE IF w.val = None THEN After(w.sent, get_workspaces(w.c, t, env))
    ELSE Ret(List(<<w.val>>), w.c, w.sent)

search_stores(wl, name, t, env) ==
    IF wl.exc # "none" THEN wl
    ELSE found_result(find_stores(wl.c, name, wl.val.items, 1, EmptyCache, wl.sent, t, env))

get_store(c, name, workspace, t, env) ==
    search_stores(potential_workspaces(resolve_workspace(c, workspace, t, env), t, env),
                  name, t, env)

\* Layer.fetch (ResourceInfo.fetch): self.dom = catalog.get_xml(self.href)
fetch(c, href, t, env) == get_xml(c, href, t, env)

\* none_if_failed without the except clause.
none_if_failed_uncaught(r, v) == IF r.exc # "none" THEN r ELSE Ret(v, r.c, r.sent)

\* try: ... return v / except FailedRequestError: return None
none_if_failed(r, v) ==
    IF r.exc = "FailedRequestError" THEN Ret(None, r.c, r.sent)
    ELSE IF r.exc # "none" THEN r
    ELSE Ret(v, r.c, r.sent)

get_layer(c, name, t, env) ==
    none_if_failed(fetch(c, layer_href(name), t, env), LayerObj(name))

group_from(r) == none_if_failed(r, IF r.exc = "none" THEN LayerGroup(r.val.names[1]) ELSE None)

get_layergroup(c, name, t, env) == group_from(get_xml(c, group_url(name), t, env))

style_from(r) == none_if_failed(r, IF r.exc = "none" THEN Style(r.val.names[1]) ELSE None)

get_style(c, name, t, env) == style_from(get_xml(c, style_url(name), t, env))

(* ---------------------------- get_style_by_url ------------------------ *)

\* for i,s in enumerate(rest_segments): the segment after the last "workspaces"
workspace_name(u) ==
    u[(CHOOSE i \in DOMAIN u : u[i] = "workspaces" /\ \A j \in DOMAIN u : j > i => u[j] # "workspaces") + 1]

\* get_style_by_url once get_workspace gave w
workspace_style(w, name) ==
    IF w.exc = "FailedRequestError" THEN Ret(None, w.c, w.sent)
    ELSE IF w.exc # "none" THEN w
    ELSE Ret(Workspace_Style(w.val, name), w.c, w.sent)

\* get_style_by_url once get_xml gave r; with no "workspaces" segment in the
\* URL workspace_name is read before it is bound.
style_by_url(r, u, t, env) ==
    IF r.exc # "none" THEN Ret(None, r.c, r.sent)
    ELSE IF "workspaces" \notin Range(u) THEN Raise("UnboundLocalError", r.c, r.sent)
    ELSE workspace_style(After(r.sent, get_workspace(r.c, workspace_name(u), t, env)),
                         r.val.names[1])

get_style_by_url(c, u, t, env) == style_by_url(get_xml(c, u, t, env), u, t, env)

(* -------------------------------- Layer ------------------------------- *)
\* A Layer: its name, its dirty map, and its dom (None until fetched).

Layer(name) == [name |-> name, dirty |-> EmptyCache, dom |-> None]

\* A result of a Layer's method carries the layer as the call leaves it.
OfLayer(r, l) == [exc |-> r.exc, val |-> r.val, c |-> r.c, sent |-> r.sent, layer |-> l]

\* if self.dom is None: self.fetch()
dom_of(l, c, t, env) ==
    IF l.dom # None THEN Ret(l.dom, c, <<>>) ELSE fetch(c, layer_href(l.name), t, env)

\* The style a reference stands for, once get_style(name) gave g
resolved(g, ref, t, env) ==
    IF g.val # None THEN g ELSE After(g.sent, get_style_by_url(g.c, ref.href, t, env))

style_of_ref(r, ref, t, env) ==
    IF ref = None THEN Ret(None, r.c, r.sent)
    ELSE resolved(After(r.sent, get_style(r.c, ref.name, t, env)), ref, t, env)

default_style_from(r, l, t, env) ==
    IF r.exc # "none" THEN OfLayer(r, l)
    ELSE OfLayer(style_of_ref(r, r.val.layer.defaultStyle, t, env), [l EXCEPT !.dom = r.val])

_get_default_style(l, c, t, env) ==
    IF "default_style" \in DOMAIN l.dirty
    THEN OfLayer(Ret(l.dirty["default_style"], c, <<>>), l)
    ELSE default_style_from(dom_of(l, c, t, env), l, t, env)

\* _set_default_style storing the object it is given.
_set_default_style_as_given(l, style) ==
    [l EXCEPT !.dirty = CachePut(@, "default_style", style)]

_set_default_style(l, style) ==
    [l EXCEPT !.dirty = CachePut(@, "default_style",
                                 IF style.kind = "Style" THEN Str(style.name) ELSE style)]

\* for s in styles_list: the styles resolved so far are acc, r the last result
RECURSIVE alternate_styles(_, _, _, _, _, _)
alternate_next(refs, i, acc, g, t, env) ==
    IF g.exc # "none" THEN g
    ELSE alternate_styles(refs, i + 1, Append(acc, g.val), g, t, env)

alternate_styles(refs, i, acc, r, t, env) ==
    IF i > Len(refs) THEN Ret(List(acc), r.c, r.sent)
    ELSE alternate_next(refs, i, acc, style_of_ref(r, refs[i], t, env), t, env)

alternate_styles_from(r, l, t, env) ==
    IF r.exc # "none" THEN OfLayer(r, l)
    ELSE OfLayer(alternate_styles(r.val.layer.styles, 1, <<>>, r, t, env),
                 [l EXCEPT !.dom = r.val])

_get_alternate_styles(l, c, t, env) ==
    IF "alternate_styles" \in DOMAIN l.dirty
    THEN OfLayer(Ret(l.dirty["alternate_styles"], c, <<>>), l)
    ELSE alternate_styles_from(dom_of(l, c, t, env), l, t, env)

_set_alternate_styles(l, styles) ==
    [l EXCEPT !.dirty = CachePut(@, "alternate_styles", styles)]

\* xml_property("attribution", _read_attribution): the dirty value, or the
\* <attribution> of the dom (None when it has none)
attribution_from(r, l) ==
    IF r.exc # "none" THEN OfLayer(r, l)
    ELSE OfLayer(Ret(r.val.layer.attribution, r.c, r.sent), [l EXCEPT !.dom = r.val])

attribution_object(l, c, t, env) ==
    IF "attribution" \in DOMAIN l.dirty
    THEN OfLayer(Ret(l.dirty["attribution"], c, <<>>), l)
    ELSE attribution_from(dom_of(l, c, t, env), l)

\* _set_attr_text once self.attribution_object gave a
attr_text_set(a, text) ==
    IF a.exc # "none" THEN a
    ELSE IF a.val = None THEN [a EXCEPT !.exc = "AttributeError"]
    ELSE [a EXCEPT !.val = None,
                   !.layer.dirty = CachePut(@, "attribution",
                                            _attribution(text, a.val.width, a.val.height))]

_set_attr_text(l, text, c, t, env) == attr_text_set(attribution_object(l, c, t, env), text)

\* writers: what message() writes for the dirty value v of key k
written(k, v) ==
    IF k = "alternate_styles" THEN [i \in DOMAIN v.items |-> Str(v.items[i].name)]
    ELSE v

(* ------------------------------ gsversion ----------------------------- *)
\* A result of gsversion carries self._version as the call leaves it.
Versioned(r, v) == [exc |-> r.exc, val |-> r.val, c |-> r.c, sent |-> r.sent, version |-> v]

\* for resource in resources: the Version text of the first resource named
\* "GeoServer" that has a Version child
RECURSIVE version_of(_, _)
version_of(resources, i) ==
    IF i > Len(resources) THEN None
    ELSE IF resources[i].name = "GeoServer" /\ resources[i].Version # None
        THEN resources[i].Version.text
    ELSE version_of(resources, i + 1)

version_from(response) ==
    IF response.status = 200 THEN version_of(response.body.resources, 1) ELSE None

\* old_version remembering "2.2.x" although get_workspaces raised.
old_version_remembered(w) ==
    IF w.exc # "none" THEN Versioned(w, Str("2.2.x"))
    ELSE Versioned(Ret(Str("2.2.x"), w.c, w.sent), Str("2.2.x"))

\* if version is None: self.get_workspaces() gave w
old_version(w) ==
    IF w.exc # "none" THEN Versioned(w, None)
    ELSE Versioned(Ret(Str("2.2.x"), w.c, w.sent), Str("2.2.x"))

\* gsversion once about/version.xml gave version
determined(c, v, t, env) ==
    IF v # None THEN Versioned(Ret(v, c, <<Req("GET", about_url)>>), v)
    ELSE old_version(After(<<Req("GET", about_url)>>, get_workspaces(c, t, env)))

gsversion(c, _version, t, env) ==
    IF _version # None THEN Versioned(Ret(_version, c, <<>>), _version)
    ELSE determined(c, version_from(http_get(env, about_url, t)), t, env)

(* --------------------------- writing operations ----------------------- *)
\* st is the status of the response to the write request.

Response(st) == [kind |-> "response", status |-> st]

Params(purge, recurse) ==
    IF purge /\ recurse THEN <<"?purge=true&recurse=true">>
    ELSE IF purge THEN <<"?purge=true">>
    ELSE IF recurse THEN <<"?recurse=true">>
    ELSE <<>>

delete(c, href, purge, recurse, st) ==
    IF st = 200
    THEN Ret(Response(st), EmptyCache, <<Req("DELETE", href \o Params(purge, recurse))>>)
    ELSE Raise("FailedRequestError", EmptyCache,
               <<Req("DELETE", href \o Params(purge, recurse))>>)

reload(c, st) == Ret(Response(st), EmptyCache, <<Req("POST", reload_url)>>)

\* save clearing the cache only when it returns.
save_keeping_on_error(c, obj, st) ==
    IF 400 <= st /\ st < 600
    THEN Raise("FailedRequestError", c, <<ReqB(obj.save_method, obj.href, obj.message)>>)
    ELSE Ret(Response(st), EmptyCache, <<ReqB(obj.save_method, obj.href, obj.message)>>)

\* obj: its href, save_method and message()
save(c, obj, st) ==
    IF 400 <= st /\ st < 600
    THEN Raise("FailedRequestError", EmptyCache,
               <<ReqB(obj.save_method, obj.href, obj.message)>>)
    ELSE Ret(Response(st), EmptyCache, <<ReqB(obj.save_method, obj.href, obj.message)>>)

\* create_style from its write on: g is what the look for a style gave.
style_upload(g, name, data, overwrite, st) ==
    IF g.exc # "none" THEN g
    ELSE IF overwrite = FALSE /\ g.val # None THEN Raise("ConflictingDataError", g.c, g.sent)
    ELSE IF st < 200 \/ st > 299
    THEN Raise("UploadError", EmptyCache,
               Append(g.sent, IF overwrite THEN ReqB("PUT", style_sld_url(name), data)
                              ELSE ReqB("POST", style_post_url(name), data)))
    ELSE Ret(None, EmptyCache,
             Append(g.sent, IF overwrite THEN ReqB("PUT", style_sld_url(name), data)
                            ELSE ReqB("POST", style_post_url(name), data)))

\* create_style looking for the style whatever overwrite is.
create_style_always_looking(c, name, data, overwrite, t, env, st) ==
    style_upload(get_style(c, name, t, env), name, data, overwrite, st)

create_style(c, name, data, overwrite, t, env, st) ==
    style_upload(IF overwrite = FALSE THEN get_style(c, name, t, env) ELSE Ret(None, c, <<>>),
                 name, data, overwrite, st)

NamespaceXml(name, uri) == [kind |-> "namespace", prefix |-> name, uri |-> uri]

\* env2 is the server as the write left it: get_workspace runs after it.
create_workspace(c, name, uri, t, env2, st) ==
    IF ~(200 <= st /\ st < 300)
    THEN Raise("AssertionError", c, <<ReqB("POST", namespaces_url, NamespaceXml(name, uri))>>)
    ELSE After(<<ReqB("POST", namespaces_url, NamespaceXml(name, uri))>>,
               get_workspace(EmptyCache, name, t, env2))

\* _name(named) for a name or an object with a name
Name(x) == IF x.kind = "str" THEN x.s ELSE x.name

Query(overwrite) == IF overwrite THEN <<"?update=overwrite">> ELSE <<>>

\* uploaded raising only on a 4xx or 5xx status.
uploaded_unless_error(sent, st) ==
    IF st >= 400 THEN Raise("UploadError", EmptyCache, sent) ELSE Ret(None, EmptyCache, sent)

\* if headers.status != 201: raise UploadError(response)
uploaded(sent, st) ==
    IF st # 201 THEN Raise("UploadError", EmptyCache, sent) ELSE Ret(None, EmptyCache, sent)

\* add_data_to_store once store is a Store object: g is what made it one.
data_upload(g, data, workspace, overwrite, st) ==
    IF g.exc # "none" THEN g
    ELSE IF workspace # None /\ g.val.workspace # Name(workspace)
    THEN Raise("AssertionError", g.c, g.sent)
    ELSE uploaded(Append(g.sent,
                         ReqB("PUT", featurestore_put_url(g.val.workspace, g.val.name)
                                         \o Query(overwrite), data)),
                  st)

add_data_to_store(c, store, name, data, workspace, overwrite, t, env, st) ==
    data_upload(IF store.kind = "str" THEN get_store(c, store.s, workspace, t, env)
                ELSE Ret(store, c, <<>>),
                data, workspace, overwrite, st)

\* conflict_of taking a store that was found for none.
conflict_of_lenient(g) ==
    IF g.exc \in {"none", "FailedRequestError"} THEN [g EXCEPT !.exc = "pass"] ELSE g

\* The try block both store creators start with when overwrite is false: g is
\* what get_store gave; "pass" lets the creator go on.
conflict_of(g) ==
    IF g.exc = "none" THEN Raise("ConflictingDataError", g.c, g.sent)
    ELSE IF g.exc = "FailedRequestError" THEN [g EXCEPT !.exc = "pass"]
    ELSE g

store_conflict(c, name, workspace, overwrite, t, env) ==
    IF overwrite THEN [Ret(None, c, <<>>) EXCEPT !.exc = "pass"]
    ELSE conflict_of(get_store(c, name, workspace, t, env))

\* r, with whether unlink(archive) ran
Unlinked(r, b) ==
    [exc |-> r.exc, val |-> r.val, c |-> r.c, sent |-> r.sent, unlinked |-> b]

featurestore_upload(g, name, data, workspace, st) ==
    IF g.exc # "pass" THEN Unlinked(g, FALSE)
    ELSE Unlinked(uploaded(Append(g.sent,
                                  ReqB("PUT",
                                       featurestore_put_url(IF workspace = None THEN "default"
                                                            ELSE Name(workspace), name),
                                       data)),
                           st),
                  TRUE)

create_featurestore(c, name, data, workspace, overwrite, t, env, st) ==
    featurestore_upload(store_conflict(c, name, workspace, overwrite, t, env),
                        name, data, workspace, st)

Ext(data) == IF data = Data("dict_tfw") THEN "worldimage" ELSE "geotiff"

\* ws: the workspace, or the default one; ws.name fails on a name.
coveragestore_upload(g, name, data, ws, st) ==
    IF g.exc # "pass" THEN Unlinked(g, FALSE)
    ELSE IF ws.kind = "str" THEN Unlinked(Raise("AttributeError", g.c, g.sent), FALSE)
    ELSE Unlinked(uploaded(Append(g.sent,
                                  ReqB("PUT", coveragestore_put_url(ws.name, name, Ext(data)),
                                       data)),
                           st),
                  data \in {Data("dict"), Data("dict_tfw")})

create_coveragestore(c, name, data, workspace, overwrite, t, env, st) ==
    coveragestore_upload(store_conflict(c, name, workspace, overwrite, t, env), name, data,
                         IF workspace = None THEN Workspace("default") ELSE workspace, st)

(* ------------------------ the server's reaction ----------------------- *)
\* A write answered with a 2xx status took effect on the server.

Ok2xx(st) == 200 <= st /\ st < 300

AfterDelete(s, href, st) ==
    IF ~Ok2xx(st) THEN s
    ELSE IF href[1] = "styles" THEN [s EXCEPT !.styles = @ \ {href[2]}]
    ELSE IF href[1] = "layers" THEN [s EXCEPT !.layers = @ \ {href[2]}]
    ELSE [s EXCEPT !.groups = @ \ {href[2]}]

AfterCreateStyle(s, name, st) ==
    IF Ok2xx(st) THEN [s EXCEPT !.styles = @ \cup {name}] ELSE s

\* A layer's document once a message has been put to it
ref_of(name) == IF name = None THEN None ELSE StyleRef(name.s, style_url(name.s))

LayerDocAfter(doc, body) ==
    LayerDoc(IF "default_style" \in DOMAIN body THEN ref_of(body["default_style"])
             ELSE doc.defaultStyle,
             IF "alternate_styles" \in DOMAIN body
             THEN [i \in DOMAIN body["alternate_styles"] |->
                      ref_of(body["alternate_styles"][i])]
             ELSE doc.styles,
             IF "attribution" \in DOMAIN body THEN body["attribution"] ELSE doc.attribution)

AfterSave(s, obj, st) ==
    IF Ok2xx(st) /\ obj.save_method = "PUT" /\ obj.href[1] = "layers" /\ obj.href[2] \in s.layers
    THEN [s EXCEPT !.ldoc = LayerDocAfter(@, obj.message.body)]
    ELSE s

AfterCreateWorkspace(s, name, st) ==
    IF Ok2xx(st) /\ name \notin Range(s.ws) THEN [s EXCEPT !.ws = Append(@, name)] ELSE s

AfterCreateStore(s, field, workspace, name, st) ==
    IF workspace # None /\ Ok2xx(st) /\ Name(workspace) \in Range(s.ws)
          /\ name \notin Range(s[field][Name(workspace)])
    THEN [s EXCEPT ![field][Name(workspace)] = Append(@, name)]
    ELSE s

(* ------------------------------ actions ------------------------------- *)

\* Statuses a write request is answered with.
WriteStatuses == {100, 200, 201, 302, 404}
\* Statuses a failing GET is answered with (a missing document gives 404).
GetFail == {204, 403, 500}

\* The server as one call sees it: every GET is answered from s, or one GET
\* among urls fails with a status of F.
Envs(s, urls, F) ==
    {[srv |-> s, down |-> {}, fs |-> 0]}
        \cup {[srv |-> s, down |-> {u}, fs |-> f] : u \in urls, f \in F}

\* The last call: its name and arguments, the status its write request was
\* answered with (0: none was sent), the exception it raised ("none": it
\* returned), the value it returned and the requests it sent, in order; for a
\* store creator, what get_store gave it and whether it unlinked the archive.
Event(op, args, st, r, gs, unlinked) ==
    [op |-> op, args |-> args, st |-> st, exc |-> r.exc, val |-> r.val,
     sent |-> r.sent, gs |-> gs, unlinked |-> unlinked]

Idle == Event("tick", None, 0, Ret(None, EmptyCache, <<>>), "-", FALSE)

\* Whether the call sent a PUT, POST or DELETE.
Wrote(r) == \E i \in DOMAIN r.sent : r.sent[i].method # "GET"

\* The statuses to draw from: a call that sends no write gets no status.
StatusesOf(r, ST) == IF Wrote(r) THEN ST ELSE {0}

\* The call is over: r is what it gave.
Finish(op, args, st, r) ==
    /\ cache' = r.c
    /\ last' = Event(op, args, st, r, "-", FALSE)

FinishChecked(op, args, st, r, gs) ==
    /\ cache' = r.c
    /\ last' = Event(op, args, st, r, gs, FALSE)

FinishCreate(op, args, st, r, gs) ==
    /\ cache' = r.c
    /\ last' = Event(op, args, st, r, gs, r.unlinked)

Tick ==
    /\ now < MaxTime
    /\ now' = now + 1
    /\ last' = Idle
    /\ UNCHANGED <<cache, srv, version, layer>>

Call_get_xml(U) ==
    \E u \in U : \E env \in Envs(srv, {u}, GetFail) :
        /\ Finish("get_xml", [url |-> u, down |-> env.down, fs |-> env.fs], 0,
                  get_xml(cache, u, now, env))
        /\ UNCHANGED <<now, srv, version, layer>>

Call_delete(H) ==
    \E href \in H : \E purge \in BOOLEAN : \E recurse \in BOOLEAN : \E st \in WriteStatuses :
        /\ Finish("delete", [href |-> href], st, delete(cache, href, purge, recurse, st))
        /\ srv' = AfterDelete(srv, href, st)
        /\ UNCHANGED <<now, version, layer>>

Call_reload ==
    \E st \in WriteStatuses :
        /\ Finish("reload", None, st, reload(cache, st))
        /\ UNCHANGED <<now, srv, version, layer>>

\* An object handed to save: its href, its save_method and its message().
Saveable(href, method, message) ==
    [href |-> href, save_method |-> method, message |-> message]

Message(dirty) == [kind |-> "message", body |-> [k \in DOMAIN dirty |-> written(k, dirty[k])]]

Call_save(O) ==
    \E obj \in O : \E st \in WriteStatuses :
        /\ Finish("save", [obj |-> obj], st, save(cache, obj, st))
        /\ srv' = AfterSave(srv, obj, st)
        /\ UNCHANGED <<now, version, layer>>

\* What a look for an object gives: "found" when it returns one.
Probe(g) == IF g.exc = "none" THEN "found" ELSE g.exc

\* get_style's None taken as a failure
style_or_fail(g) == IF g.exc = "none" /\ g.val = None THEN [g EXCEPT !.exc = "None"] ELSE g

Call_create_style ==
    \E name \in StyleNames : \E overwrite \in BOOLEAN :
    \E env \in Envs(srv, IF overwrite THEN {} ELSE {style_url(name)}, GetFail) :
    \E st \in StatusesOf(create_style(cache, name, Data("sld"), overwrite, now, env, 0),
                         WriteStatuses) :
        /\ FinishChecked("create_style", [name |-> name, overwrite |-> overwrite], st,
                         create_style(cache, name, Data("sld"), overwrite, now, env, st),
                         IF overwrite THEN "-"
                         ELSE Probe(style_or_fail(get_style(cache, name, now, env))))
        /\ srv' = IF st = 0 THEN srv ELSE AfterCreateStyle(srv, name, st)
        /\ UNCHANGED <<now, version, layer>>

Call_create_workspace(N) ==
    \E name \in N : \E st \in WriteStatuses :
    \E env2 \in Envs(AfterCreateWorkspace(srv, name, st),
                     IF Ok2xx(st) THEN {workspaces_url} ELSE {}, GetFail) :
        /\ Finish("create_workspace", [name |-> name], st,
                  create_workspace(cache, name, "uri", now, env2, st))
        /\ srv' = env2.srv
        /\ UNCHANGED <<now, version, layer>>

\* W: the workspace arguments (None, a name, or a Workspace object); D: the
\* URLs whose GET may fail.
Call_get_store(W, D) ==
    \E name \in StoreNames : \E workspace \in W : \E env \in Envs(srv, D, {500}) :
        /\ Finish("get_store", [name |-> name, workspace |-> workspace, down |-> env.down],
                  0, get_store(cache, name, workspace, now, env))
        /\ UNCHANGED <<now, srv, version, layer>>

Call_add_data_to_store(S, W, D, ST) ==
    \E store \in S : \E workspace \in W : \E overwrite \in BOOLEAN :
    \E env \in Envs(srv, IF store.kind = "str" THEN D ELSE {}, {500}) :
    \E st \in StatusesOf(add_data_to_store(cache, store, "n", Data("dict"), workspace,
                                           overwrite, now, env, 0), ST) :
        /\ Finish("add_data_to_store",
                  [store |-> store, workspace |-> workspace, overwrite |-> overwrite], st,
                  add_data_to_store(cache, store, "n", Data("dict"), workspace, overwrite,
                                    now, env, st))
        /\ UNCHANGED <<now, srv, version, layer>>

\* DT: the forms of data.
Call_create_featurestore(W, D, ST, DT) ==
    \E name \in StoreNames : \E workspace \in W : \E overwrite \in BOOLEAN :
    \E env \in Envs(srv, IF overwrite THEN {} ELSE D, {500}) :
    \E data \in DT :
    \E st \in StatusesOf(create_featurestore(cache, name, data, workspace, overwrite, now,
                                             env, 0), ST) :
        /\ FinishCreate("create_featurestore",
                        [name |-> name, workspace |-> workspace, overwrite |-> overwrite], st,
                        create_featurestore(cache, name, data, workspace, overwrite, now,
                                            env, st),
                        IF overwrite THEN "-"
                        ELSE Probe(get_store(cache, name, workspace, now, env)))
        /\ srv' = IF st = 0 THEN srv ELSE AfterCreateStore(srv, "ds", workspace, name, st)
        /\ UNCHANGED <<now, version, layer>>

Call_create_coveragestore(W, D, ST, DT) ==
    \E name \in StoreNames : \E workspace \in W : \E overwrite \in BOOLEAN :
    \E env \in Envs(srv, IF overwrite THEN {} ELSE D, {500}) :
    \E data \in DT :
    \E st \in StatusesOf(create_coveragestore(cache, name, data, workspace, overwrite, now,
                                              env, 0), ST) :
        /\ FinishCreate("create_coveragestore",
                        [name |-> name, workspace |-> workspace, overwrite |-> overwrite], st,
                        create_coveragestore(cache, name, data, workspace, overwrite, now,
                                             env, st),
                        IF overwrite THEN "-"
                        ELSE Probe(get_store(cache, name, workspace, now, env)))
        /\ srv' = IF st = 0 THEN srv ELSE AfterCreateStore(srv, "cs", workspace, name, st)
        /\ UNCHANGED <<now, version, layer>>

Call_get_workspace ==
    \E name \in WsNames : \E env \in Envs(srv, {workspaces_url}, GetFail) :
        /\ Finish("get_workspace", [name |-> name, down |-> env.down, fs |-> env.fs], 0,
                   get_workspace(cache, name, now, env))
        /\ UNCHANGED <<now, srv, version, layer>>

Call_get_style ==
    \E name \in StyleNames : \E env \in Envs(srv, {style_url(name)}, GetFail) :
        /\ Finish("get_style", [name |-> name, down |-> env.down, fs |-> env.fs], 0,
                   get_style(cache, name, now, env))
        /\ UNCHANGED <<now, srv, version, layer>>

\* The call on the layer is over: r is what it gave.
FinishLayer(op, args, r) ==
    /\ cache' = r.c
    /\ layer' = r.layer
    /\ last' = Event(op, args, 0, r, "-", FALSE)

\* layer.default_style = style
Call_set_default_style(S) ==
    \E style \in S :
        /\ FinishLayer("set_default_style", [style |-> style],
                       OfLayer(Ret(None, cache, <<>>), _set_default_style(layer, style)))
        /\ UNCHANGED <<now, srv, version>>

\* layer.styles = styles
Call_set_styles(S) ==
    \E styles \in S :
        /\ FinishLayer("set_styles", [styles |-> styles],
                       OfLayer(Ret(None, cache, <<>>), _set_alternate_styles(layer, styles)))
        /\ UNCHANGED <<now, srv, version>>

\* layer.attribution = text
Call_set_attribution(T) ==
    \E text \in T : \E env \in Envs(srv, {layer_href(layer.name)}, {500}) :
        /\ FinishLayer("set_attribution", [text |-> text],
                       _set_attr_text(layer, text, cache, now, env))
        /\ UNCHANGED <<now, srv, version>>

\* layer.default_style
Call_get_default_style ==
    \E env \in Envs(srv, {layer_href(layer.name), style_url("st")}, {500}) :
        /\ FinishLayer("get_default_style", [down |-> env.down],
                       _get_default_style(layer, cache, now, env))
        /\ UNCHANGED <<now, srv, version>>

\* layer.styles
Call_get_styles ==
    \E env \in Envs(srv, {layer_href(layer.name), style_url("st")}, {500}) :
        /\ FinishLayer("get_styles", [down |-> env.down],
                       _get_alternate_styles(layer, cache, now, env))
        /\ UNCHANGED <<now, srv, version>>

Call_get_style_by_url(U) ==
    \E u \in U : \E env \in Envs(srv, {u, workspaces_url}, GetFail) :
        /\ Finish("get_style_by_url", [url |-> u, down |-> env.down, fs |-> env.fs], 0,
                  get_style_by_url(cache, u, now, env))
        /\ UNCHANGED <<now, srv, version, layer>>

Call_gsversion ==
    \E env \in Envs(srv, IF version = None THEN {about_url, workspaces_url} ELSE {}, GetFail) :
        /\ Finish("gsversion", [down |-> env.down, fs |-> env.fs], 0,
                  gsversion(cache, version, now, env))
        /\ version' = gsversion(cache, version, now, env).version
        /\ UNCHANGED <<now, srv, layer>>

Call_get_layer ==
    \E name \in LayerNames : \E env \in Envs(srv, {layer_href(name)}, GetFail) :
        /\ Finish("get_layer", [name |-> name, down |-> env.down, fs |-> env.fs], 0,
                   get_layer(cache, name, now, env))
        /\ UNCHANGED <<now, srv, version, layer>>

Call_get_layergroup ==
    \E name \in GroupNames : \E env \in Envs(srv, {group_url(name)}, GetFail) :
        /\ Finish("get_layergroup", [name |-> name, down |-> env.down, fs |-> env.fs], 0,
                   get_layergroup(cache, name, now, env))
        /\ UNCHANGED <<now, srv, version, layer>>

(* --------------------------- specifications --------------------------- *)

Server(ws, ds, cs, styles, layers, groups) ==
    [ws |-> ws, ds |-> ds, cs |-> cs, styles |-> styles, layers |-> layers, groups |-> groups,
     about |-> None, wstyles |-> {}, ldoc |-> LayerDoc(None, <<>>, None)]

WsLists == {<<>>, <<"w1">>, <<"w2">>, <<"w1", "w2">>, <<"w1", "w1">>}
StoreLists == {<<>>, <<"s">>}

\* The stores of the listed workspaces; a workspace the server does not list
\* has none.
StoresOf(ws) == {f \in [WsNames -> StoreLists] : \A w \in WsNames \ Range(ws) : f[w] = <<>>}
NoStores == [w \in WsNames |-> <<>>]

ALayer == Saveable(layer_href("ly"), "PUT", Message(EmptyCache))
AnUnsavedStore == Saveable(<<"workspaces", "w1", "datastores">>, "POST", Message(EmptyCache))

\* ---- Spec: the cache and its clock.
CacheURLs == {workspaces_url, style_url("st")}

Init ==
    /\ now = 0
    /\ cache = EmptyCache
    /\ srv \in {Server(ws, NoStores, NoStores, st, {}, {}) :
                   ws \in {<<>>, <<"w1">>}, st \in SUBSET StyleNames}
    /\ version = None
    /\ layer = Layer("ly")
    /\ last = Idle

Next ==
    \/ Tick
    \/ Call_get_xml(CacheURLs)
    \/ Call_get_style
    \/ Call_get_workspace
    \/ Call_delete({style_url("st")})
    \/ Call_reload
    \/ Call_save({ALayer})

Spec == Init /\ [][Next]_vars

\* ---- SpecWriters: the eight writing operations, within one second.
InitWriters ==
    /\ now = 0
    /\ cache = EmptyCache
    /\ srv \in UNION {{Server(ws, ds, NoStores, st, {}, {}) :
                           ds \in StoresOf(ws), st \in SUBSET StyleNames} :
                       ws \in {<<>>, <<"w1">>}}
    /\ version = None
    /\ layer = Layer("ly")
    /\ last = Idle

WriterWs == {None, Str("w1")}
WriterURLs == {workspaces_url, datastore_url("w1")}

NextWriters ==
    \/ Call_get_xml(CacheURLs)
    \/ Call_delete({style_url("st")})
    \/ Call_reload
    \/ Call_save({ALayer, AnUnsavedStore})
    \/ Call_create_style
    \/ Call_create_workspace({"w1"})
    \/ Call_add_data_to_store({Str("s"), Store("dataStore", "w1", "s")}, WriterWs,
                              WriterURLs, WriteStatuses)
    \/ Call_create_featurestore(WriterWs, WriterURLs, WriteStatuses, {Data("path")})
    \/ Call_create_coveragestore({None, Workspace("w1")}, WriterURLs, WriteStatuses,
                                 {Data("dict_tfw"), Data("file")})

SpecWriters == InitWriters /\ [][NextWriters]_vars

\* ---- SpecStore: get_store and the two store creators, within one second,
\* on servers of up to two workspaces.
InitStore ==
    /\ now = 0
    /\ cache = EmptyCache
    /\ srv \in UNION {{Server(ws, ds, cs, {}, {}, {}) : ds \in StoresOf(ws), cs \in StoresOf(ws)} :
                       ws \in WsLists}
    /\ version = None
    /\ layer = Layer("ly")
    /\ last = Idle

StoreWs == {None, Str("w1"), Workspace("w1")}
StoreDown == {workspaces_url, coveragestore_url("w1")}

NextStore ==
    \/ Call_get_store(StoreWs, StoreDown)
    \/ Call_create_featurestore(StoreWs, StoreDown, {201, 404}, {Data("dict")})
    \/ Call_create_coveragestore(StoreWs, StoreDown, {201, 404}, {Data("dict"), Data("path")})

SpecStore == InitStore /\ [][NextStore]_vars

\* ---- SpecLookup: the single-object lookups, within one second.
InitLookup ==
    /\ now = 0
    /\ cache = EmptyCache
    /\ srv \in {Server(ws, NoStores, NoStores, st, ly, gr) :
                   ws \in WsLists, st \in SUBSET StyleNames, ly \in SUBSET LayerNames,
                   gr \in SUBSET GroupNames}
    /\ version = None
    /\ layer = Layer("ly")
    /\ last = Idle

NextLookup ==
    \/ Call_get_layer
    \/ Call_get_style
    \/ Call_get_layergroup
    \/ Call_get_workspace
    \/ Call_delete({style_url("st"), layer_href("ly"), group_url("g")})
    \/ Call_create_style

SpecLookup == InitLookup /\ [][NextLookup]_vars

\* ---- SpecVersion: gsversion over the documents about/version.xml can be.
GeoServerVersions == {None, Element(None), Element(Str("2.5"))}

Abouts ==
    {None, About(<<>>), About(<<Resource("GeoTools", Element(Str("12")))>>)}
        \cup {About(<<Resource("GeoServer", v)>>) : v \in GeoServerVersions}
        \cup {About(<<Resource("GeoTools", Element(Str("12"))), Resource("GeoServer", v)>>) :
                 v \in GeoServerVersions}
        \cup {About(<<Resource("GeoServer", v), Resource("GeoTools", Element(Str("12")))>>) :
                 v \in GeoServerVersions}

InitVersion ==
    /\ now = 0
    /\ cache = EmptyCache
    /\ srv \in {[Server(ws, NoStores, NoStores, {}, {}, {}) EXCEPT !.about = a] :
                   ws \in {<<>>, <<"w1">>}, a \in Abouts}
    /\ version = None
    /\ layer = Layer("ly")
    /\ last = Idle

NextVersion ==
    \/ Tick
    \/ Call_gsversion
    \/ Call_get_xml({workspaces_url})
    \/ Call_reload

SpecVersion == InitVersion /\ [][NextVersion]_vars

\* ---- SpecLayer: one Layer assigned to, read and saved, within one second.
LayerDocs ==
    {LayerDoc(d, a, t) :
        d \in {None, StyleRef("st", style_url("st")),
               StyleRef("wst", workspace_style_url("w1", "wst"))},
        a \in {<<>>, <<StyleRef("st", style_url("st"))>>},
        t \in {None, _attribution(None, Str("0"), Str("0"))}}

InitLayer ==
    /\ now = 0
    /\ cache = EmptyCache
    /\ srv \in {Server(<<"w1">>, NoStores, NoStores, st, {}, {}) : st \in SUBSET StyleNames}
                  \cup {[Server(<<"w1">>, NoStores, NoStores, st, {"ly"}, {})
                            EXCEPT !.ldoc = d, !.wstyles = {<<"w1", "wst">>}] :
                            st \in SUBSET StyleNames, d \in LayerDocs}
    /\ version = None
    /\ layer = Layer("ly")
    /\ last = Idle

NextLayer ==
    \/ Call_set_default_style({None, Str("st"), Style("st")})
    \/ Call_set_styles({List(<<>>), List(<<Style("st")>>)})
    \/ Call_set_attribution({Str("t")})
    \/ Call_get_default_style
    \/ Call_get_styles
    \/ Call_save({Saveable(layer_href(layer.name), "PUT", Message(layer.dirty))})

SpecLayer == InitLayer /\ [][NextLayer]_vars

\* ---- SpecStyleUrl: styles looked up by URL, global and of a workspace, within
\* one second.
StyleByUrlURLs == {style_url("st"), workspace_style_url("w1", "wst")}

InitStyleUrl ==
    /\ now = 0
    /\ cache = EmptyCache
    /\ srv \in {[Server(ws, NoStores, NoStores, st, {}, {}) EXCEPT !.wstyles = wst] :
                   ws \in {<<"w1">>, <<"w1", "w2">>, <<"w1", "w1">>},
                   st \in SUBSET StyleNames,
                   wst \in SUBSET {<<"w1", "wst">>}}
    /\ version = None
    /\ layer = Layer("ly")
    /\ last = Idle

NextStyleUrl ==
    \/ Call_get_style_by_url(StyleByUrlURLs)
    \/ Call_get_workspace
    \/ Call_reload

SpecStyleUrl == InitStyleUrl /\ [][NextStyleUrl]_vars

(* ------------------------------- claims ------------------------------- *)

Writers == {"delete", "save", "reload", "add_data_to_store", "create_featurestore",
            "create_coveragestore", "create_style", "create_workspace"}

\* The GETs of sent from position i on
GetsFrom(sent, i) == {sent[k].url : k \in {j \in DOMAIN sent : j >= i /\ sent[j].method = "GET"}}

\* C1: get_xml(u) answers from the cache, sending nothing, exactly when the
\* cache holds an entry for u stored less than 5 seconds before the call;
\* otherwise it sends one GET to u.  Content it returns was served for u
\* itself, less than 5 seconds before the call.
C1_CachedOrFetched ==
    [][last'.op = "get_xml" =>
          /\ (last'.sent = <<>>) <=>
                 (last'.args.url \in DOMAIN cache /\ now - cache[last'.args.url].t < 5)
          /\ last'.sent # <<>> => last'.sent = <<Req("GET", last'.args.url)>>
          /\ last'.exc = "none" =>
                 /\ last'.val.href = last'.args.url
                 /\ now - last'.val.at < 5
                 /\ cache'[last'.args.url].body = last'.val]_vars

\* C1 witness: a call answered from an entry stored 4 seconds before.
C1_Witness ==
    /\ last.op = "get_xml" /\ last.sent = <<>> /\ last.exc = "none"
    /\ now - last.val.at = 4

\* C2 as claimed: once a writing operation has its write answered, the cache
\* is empty when it returns or raises, whatever the status.
C2_EmptyAfterWrite ==
    (last.op \in Writers /\ last.st # 0) => cache = EmptyCache

\* C2 as amended: once a writing operation has its write answered, delete,
\* save, reload, add_data_to_store, create_featurestore, create_coveragestore
\* and create_style leave the cache empty whatever the status; create_workspace
\* answered 2xx leaves in it only what its own get_workspace fetched after the
\* write, and answered anything else raises AssertionError with the cache as it
\* was.
C2_NothingOlderThanWrite ==
    [][(last'.op \in Writers /\ last'.st # 0) =>
          IF last'.op # "create_workspace" THEN cache' = EmptyCache
          ELSE IF Ok2xx(last'.st)
               THEN /\ last'.sent[1].method = "POST"
                    /\ DOMAIN cache' \subseteq GetsFrom(last'.sent, 2)
               ELSE last'.exc = "AssertionError" /\ cache' = cache]_vars

\* C2 witness: create_workspace answered with a non-2xx status has raised and
\* the cache still holds an entry.
C2_Witness ==
    /\ last.op = "create_workspace" /\ ~Ok2xx(last.st) /\ last.exc = "AssertionError"
    /\ cache # EmptyCache

LibraryErrors == {"FailedRequestError", "UploadError", "ConflictingDataError",
                  "AmbiguousRequestError"}

\* C3 as claimed: every writing operation answers a non-2xx status of its
\* write with one of the library's exceptions.
C3_Non2xxRaisesLibraryError ==
    (last.op \in Writers /\ last.st # 0 /\ ~Ok2xx(last.st)) => last.exc \in LibraryErrors

\* C3 as amended: on a non-2xx status of the write, delete raises
\* FailedRequestError; create_style, add_data_to_store, create_featurestore
\* and create_coveragestore raise UploadError; save raises FailedRequestError
\* for 400..599 and returns the response for any other status; reload returns
\* the response; create_workspace raises AssertionError.
C3_Non2xxPerWriter ==
    (last.op \in Writers /\ last.st # 0 /\ ~Ok2xx(last.st)) =>
        CASE last.op = "delete" -> last.exc = "FailedRequestError"
          [] last.op \in {"create_style", "add_data_to_store", "create_featurestore",
                          "create_coveragestore"} -> last.exc = "UploadError"
          [] last.op = "save" ->
                 IF 400 <= last.st /\ last.st < 600 THEN last.exc = "FailedRequestError"
                 ELSE last.exc = "none" /\ last.val = Response(last.st)
          [] last.op = "reload" -> last.exc = "none" /\ last.val = Response(last.st)
          [] last.op = "create_workspace" -> last.exc = "AssertionError"

\* C3 witness: save answered 302 has returned the response.
C3_Witness ==
    last.op = "save" /\ last.st = 302 /\ last.exc = "none"

\* The workspaces get_store searches on server s: the one given, or all of
\* them when none is given or the name given is not listed.
Searched(s, workspace) ==
    IF workspace = None THEN Range(s.ws)
    ELSE IF workspace.kind = "str"
         THEN IF workspace.s \in Range(s.ws) THEN {workspace.s} ELSE Range(s.ws)
    ELSE {workspace.name} \cap Range(s.ws)

\* Those of them that have a store of that name
Having(s, workspace, name) ==
    {w \in Searched(s, workspace) : name \in Range(s.ds[w]) \cup Range(s.cs[w])}

\* The workspace name given is listed twice: get_workspace raises.
ListedTwice(s, workspace) ==
    /\ workspace.kind = "str"
    /\ Cardinality({i \in DOMAIN s.ws : s.ws[i] = workspace.s}) > 1

\* C4: when every GET is answered, get_store raises FailedRequestError if no
\* searched workspace has a store of that name, returns the store if exactly
\* one has, and raises AmbiguousRequestError if more than one has.
C4_ThreeOutcomes ==
    (last.op = "get_store" /\ last.args.down = {}
        /\ ~ListedTwice(srv, last.args.workspace)) =>
        LET n == Cardinality(Having(srv, last.args.workspace, last.args.name)) IN
        /\ n = 0 => last.exc = "FailedRequestError"
        /\ n = 1 => /\ last.exc = "none"
                    /\ last.val.kind = "Store" /\ last.val.name = last.args.name
                    /\ last.val.workspace \in Having(srv, last.args.workspace, last.args.name)
        /\ n > 1 => last.exc = "AmbiguousRequestError"

\* C5 as claimed: with overwrite false, a store creator for which get_store
\* finds a store raises ConflictingDataError, sends no PUT, leaves the cache
\* unchanged and unlinks nothing; it sends its PUT only when get_store raised
\* FailedRequestError.
C5_ConflictLeavesCache ==
    [][(last'.op \in {"create_featurestore", "create_coveragestore"}
           /\ ~last'.args.overwrite) =>
          /\ last'.gs = "found" =>
                 /\ last'.exc = "ConflictingDataError"
                 /\ ~Wrote(last') /\ ~last'.unlinked
                 /\ cache' = cache
          /\ Wrote(last') => last'.gs = "FailedRequestError"]_vars

\* The cache lost nothing: each entry is as it was, or was stored by a GET of
\* this call.
OnlyFetched(c, c2, sent) ==
    /\ \A u \in DOMAIN c : u \in DOMAIN c2 /\ (c2[u] = c[u] \/ u \in GetsFrom(sent, 1))
    /\ \A u \in (DOMAIN c2) \ (DOMAIN c) : u \in GetsFrom(sent, 1)

\* C5 as amended: with overwrite false, a store creator for which get_store
\* returns a store raises ConflictingDataError, sends no PUT, unlinks nothing
\* and removes no cache entry (the cache changes only by what get_store's own
\* GETs stored); it sends its PUT only when get_store raised
\* FailedRequestError; any other exception of get_store is raised on, with no
\* PUT sent.
C5_ConflictKeepsCache ==
    [][(last'.op \in {"create_featurestore", "create_coveragestore"}
           /\ ~last'.args.overwrite) =>
          /\ last'.gs = "found" =>
                 /\ last'.exc = "ConflictingDataError"
                 /\ ~Wrote(last') /\ ~last'.unlinked
                 /\ OnlyFetched(cache, cache', last'.sent)
          /\ Wrote(last') => last'.gs = "FailedRequestError"
          /\ last'.gs \notin {"found", "FailedRequestError"} =>
                 /\ last'.exc = last'.gs /\ ~Wrote(last') /\ ~last'.unlinked
                 /\ OnlyFetched(cache, cache', last'.sent)]_vars

\* C5 witness: create_featurestore has raised ConflictingDataError after
\* get_store fetched the listings, which the cache now holds.
C5_Witness ==
    /\ last.op = "create_featurestore" /\ ~last.args.overwrite
    /\ last.exc = "ConflictingDataError" /\ last.gs = "found"
    /\ last.sent # <<>> /\ GetsFrom(last.sent, 1) \subseteq DOMAIN cache

\* The writes among the requests sent
Writes(sent) == SelectSeq(sent, LAMBDA q : q.method # "GET")

\* C6: create_style with overwrite false raises ConflictingDataError, writing
\* nothing and not clearing the cache, when get_style finds a style, and sends
\* exactly one POST to styles?name=<name> when it finds none; with overwrite
\* true it sends exactly one PUT to styles/<name>.sld and no GET; after the
\* write it raises UploadError exactly when the status is outside 200..299.
C6_CreateStyle ==
    [][last'.op = "create_style" =>
          /\ (~last'.args.overwrite /\ last'.gs = "found") =>
                 /\ last'.exc = "ConflictingDataError"
                 /\ ~Wrote(last')
                 /\ OnlyFetched(cache, cache', last'.sent)
          /\ (~last'.args.overwrite /\ last'.gs = "None") =>
                 Writes(last'.sent) =
                     <<ReqB("POST", <<"styles", "?name=", last'.args.name>>, Data("sld"))>>
          /\ last'.args.overwrite =>
                 last'.sent =
                     <<ReqB("PUT", <<"styles", last'.args.name, ".sld">>, Data("sld"))>>
          /\ Wrote(last') =>
                 /\ (last'.exc = "UploadError") <=> (last'.st < 200 \/ last'.st > 299)
                 /\ last'.exc \in {"UploadError", "none"}]_vars

\* C6 witness: create_style with overwrite false found no style, posted, and
\* raised UploadError on a 404.
C6_Witness ==
    /\ last.op = "create_style" /\ ~last.args.overwrite /\ last.gs = "None"
    /\ last.st = 404 /\ last.exc = "UploadError"
    /\ Len(last.sent) = 2

\* Whether the GET of u got a status other than 200 in the call with
\* arguments a on server s
Failed(s, a, u) == u \in a.down \/ Doc(s, u) = None

LookupURL(e) ==
    IF e.op = "get_layer" THEN <<"layers", e.args.name, ".xml">>
    ELSE IF e.op = "get_style" THEN <<"styles", e.args.name, ".xml">>
    ELSE <<"layergroups", e.args.name, ".xml">>

\* How many times the listing names the workspace
Listed(s, name) == Cardinality({i \in DOMAIN s.ws : s.ws[i] = name})

\* C8: get_layer, get_style and get_layergroup raise nothing, and when their
\* GET gets a non-200 status they return None and leave the cache unchanged;
\* get_workspace, given the listing, returns None when it names no such
\* workspace, the workspace when it names it once, and raises
\* AmbiguousRequestError when it names it more than once.
C8_MissingIsNone ==
    [][/\ last'.op \in {"get_layer", "get_style", "get_layergroup"} =>
              /\ last'.exc = "none"
              /\ (last'.sent # <<>> /\ Failed(srv, last'.args, LookupURL(last'))) =>
                     last'.val = None /\ cache' = cache
              /\ ~(last'.sent # <<>> /\ Failed(srv, last'.args, LookupURL(last'))) =>
                     last'.val # None /\ last'.val.name = last'.args.name
       /\ (last'.op = "get_workspace" /\ last'.exc # "FailedRequestError") =>
              /\ Listed(srv, last'.args.name) = 0 => last'.exc = "none" /\ last'.val = None
              /\ Listed(srv, last'.args.name) = 1 =>
                     last'.exc = "none" /\ last'.val = Workspace(last'.args.name)
              /\ Listed(srv, last'.args.name) > 1 => last'.exc = "AmbiguousRequestError"
      ]_vars

\* C8 witness: get_style, answered 403, has returned None and the cache still
\* holds what it held.
C8_Witness ==
    /\ last.op = "get_style" /\ last.args.fs = 403 /\ last.sent # <<>>
    /\ last.exc = "none" /\ last.val = None
    /\ cache # EmptyCache

\* C10: get_store(name, w) for a workspace name w the server does not list
\* returns or raises exactly what get_store(name, None) does, leaving the same
\* cache.
C10_UnknownWorkspaceAsNone ==
    [][(last'.op = "get_store" /\ last'.args.workspace.kind = "str"
           /\ last'.args.workspace.s \notin Range(srv.ws)) =>
          LET g == get_store(cache, last'.args.name, None, now,
                             [srv |-> srv, down |-> last'.args.down,
                              fs |-> IF last'.args.down = {} THEN 0 ELSE 500])
          IN /\ last'.exc = g.exc
             /\ last'.val = g.val
             /\ cache' = g.c]_vars

\* C10 witness: get_store(s, "w1") on a server that does not list w1 has
\* returned the store of another workspace.
C10_Witness ==
    /\ last.op = "get_store" /\ last.args.workspace = Str("w1")
    /\ "w1" \notin Range(srv.ws)
    /\ last.exc = "none" /\ last.val.workspace = "w2"

\* The resources of about/version.xml named "GeoServer" whose Version has a text
Versions(s) ==
    {i \in DOMAIN s.about.resources :
        /\ s.about.resources[i].name = "GeoServer"
        /\ s.about.resources[i].Version # None
        /\ s.about.resources[i].Version.text # None}

\* C7: gsversion, with no version memoized, sends the GET of
\* about/version.xml and returns the Version text of the resource named
\* "GeoServer" when the document is obtained and holds one; otherwise it
\* returns "2.2.x" when the workspaces listing is cached or its GET succeeds,
\* and raises FailedRequestError when that GET fails, memoizing nothing.
C7_Version ==
    [][(last'.op = "gsversion" /\ version = None) =>
          /\ last'.sent # <<>> /\ last'.sent[1] = Req("GET", <<"about", "version.xml">>)
          /\ IF /\ <<"about", "version.xml">> \notin last'.args.down
                /\ srv.about # None
                /\ Versions(srv) # {}
             THEN /\ last'.exc = "none"
                  /\ \E i \in Versions(srv) : last'.val = srv.about.resources[i].Version.text
                  /\ version' = last'.val
             ELSE IF \/ <<"workspaces.xml">> \notin last'.args.down
                     \/ (<<"workspaces.xml">> \in DOMAIN cache
                            /\ now - cache[<<"workspaces.xml">>].t < TTL)
             THEN /\ last'.exc = "none"
                  /\ last'.val = Str("2.2.x")
                  /\ version' = last'.val
             ELSE /\ last'.exc = "FailedRequestError"
                  /\ version' = None]_vars

\* C7 witness: gsversion has raised FailedRequestError, about/version.xml
\* having given no version and the GET of the workspaces listing having
\* failed, and no version is memoized.
C7_Witness ==
    /\ last.op = "gsversion" /\ last.exc = "FailedRequestError"
    /\ last.args.down = {<<"workspaces.xml">>}
    /\ Len(last.sent) = 2
    /\ version = None

\* The server as a call sees it when no GET fails
Up(s) == [srv |-> s, down |-> {}, fs |-> 0]

\* dirty with at most the key k changed
OnlyKey(d, d2, k) ==
    /\ DOMAIN d2 \subseteq DOMAIN d \cup {k}
    /\ \A x \in DOMAIN d : x \in DOMAIN d2 /\ (x # k => d2[x] = d[x])

\* Assigning changes at most the key's dirty value and sends no write; a save
\* sends one PUT to the layer's href carrying its message; only a save changes
\* the server.
LocalUntilSaved ==
    /\ last'.op = "set_default_style" =>
           /\ last'.sent = <<>> /\ srv' = srv /\ cache' = cache
           /\ OnlyKey(layer.dirty, layer'.dirty, "default_style")
           /\ "default_style" \in DOMAIN layer'.dirty
    /\ last'.op = "set_styles" =>
           /\ last'.sent = <<>> /\ srv' = srv /\ cache' = cache
           /\ OnlyKey(layer.dirty, layer'.dirty, "alternate_styles")
           /\ layer'.dirty["alternate_styles"] = last'.args.styles
           /\ _get_alternate_styles(layer', cache', now', Up(srv')).val = last'.args.styles
           /\ _get_alternate_styles(layer', cache', now', Up(srv')).sent = <<>>
    /\ last'.op = "set_attribution" =>
           /\ ~Wrote(last') /\ srv' = srv
           /\ OnlyKey(layer.dirty, layer'.dirty, "attribution")
           /\ last'.exc = "none" => layer'.dirty["attribution"].title = last'.args.text
    /\ last'.op = "save" =>
           /\ last'.sent = <<ReqB("PUT", <<"layers", layer.name, ".xml">>, Message(layer.dirty))>>
           /\ layer' = layer
    /\ srv' # srv => last'.op = "save"

\* C9: assigning default_style, styles or attribution on a Layer only records
\* the value in its dirty map and sends no PUT, POST or DELETE; reading
\* default_style or styles after assigning it returns the value that was
\* assigned, without any fetch; the server is changed only by save(layer),
\* which sends exactly one PUT to layer.href carrying layer.message().
C9_LocalUntilSaved ==
    [][/\ LocalUntilSaved
       /\ last'.op = "set_default_style" =>
              /\ _get_default_style(layer', cache', now', Up(srv')).val = last'.args.style
              /\ _get_default_style(layer', cache', now', Up(srv')).sent = <<>>]_vars

\* What reading default_style gives once style was assigned
NameOf(style) == IF style.kind = "Style" THEN Str(style.name) ELSE style

\* C9 as amended: as C9, but reading default_style after assigning a Style
\* object returns that style's name, and the assigned value itself otherwise.
C9_LocalUntilSavedByName ==
    [][/\ LocalUntilSaved
       /\ last'.op = "set_default_style" =>
              /\ _get_default_style(layer', cache', now', Up(srv')).val = NameOf(last'.args.style)
              /\ _get_default_style(layer', cache', now', Up(srv')).sent = <<>>]_vars

\* C9 witness: a Style object has been assigned as default_style of a layer
\* whose document names another default style; nothing was sent.
C9_Witness ==
    /\ last.op = "set_default_style" /\ last.args.style = Style("st")
    /\ layer.dirty["default_style"] = Str("st")
    /\ srv.ldoc.defaultStyle # None /\ srv.ldoc.defaultStyle.name = "wst"
    /\ last.sent = <<>>

\* Whether the call with arguments a gets the document of u: from the cache,
\* or from the server with status 200
Obtained(c, t, s, a, u) ==
    \/ (u \in DOMAIN c /\ t - c[u].t < TTL)
    \/ ~Failed(s, a, u)

\* C11: get_style_by_url(u), when it gets the document of u, returns a
\* Workspace_Style bound to workspace <ws> if u holds the segments
\* workspaces/<ws>, and a plain Style named by the document otherwise; when the
\* GET of u fails it returns None; it raises nothing in any of these cases.
C11_StyleByUrl ==
    [][last'.op = "get_style_by_url" =>
          /\ last'.exc = "none"
          /\ IF ~Obtained(cache, now, srv, last'.args, last'.args.url)
             THEN last'.val = None
             ELSE IF last'.args.url[1] = "workspaces"
             THEN last'.val = Workspace_Style(Workspace(last'.args.url[2]), last'.args.url[4])
             ELSE last'.val = Style(last'.args.url[2])]_vars

\* The entries of the cache are bodies of 200 responses, each under the URL
\* it was requested from, stamped with the time of the request
StoredAsFetched(c, t) ==
    \A u \in DOMAIN c :
        /\ c[u].body # None
        /\ c[u].body.kind = "xml"
        /\ c[u].body.href = u
        /\ c[u].body.at = c[u].t
        /\ c[u].t <= t

ReadOnly == {"get_xml", "get_workspace", "get_style"}

\* C12: the cache holds only bodies of GET responses with status 200, each
\* under the URL requested; a get_xml that receives a non-200 status raises
\* FailedRequestError and leaves the cache exactly as it was; a read-only
\* operation removes no cache entry.
C12_OnlyFetchedBodies ==
    [][/\ StoredAsFetched(cache', now')
       /\ (last'.op = "get_xml" /\ last'.sent # <<>>
              /\ Failed(srv, last'.args, last'.args.url)) =>
              last'.exc = "FailedRequestError" /\ cache' = cache
       /\ last'.op \in ReadOnly => DOMAIN cache \subseteq DOMAIN cache']_vars

\* C12 witness: a get_xml whose GET failed has raised FailedRequestError and
\* the cache still holds the entry of that URL, fetched 5 seconds before or
\* earlier.
C12_Witness ==
    /\ last.op = "get_xml" /\ last.exc = "FailedRequestError" /\ last.args.fs = 403
    /\ last.args.url \in DOMAIN cache
    /\ now - cache[last.args.url].t >= TTL

====
